---- MODULE Spec2Model ----
(***************************************************************************)
(* Model of bench/bench.py: the benchmark harness that converts .wat       *)
(* workloads to .wasm, measures every catalog case with hyperfine,         *)
(* collects the raw results, writes the aggregate results file, prints a   *)
(* summary table and cleans up.                                            *)
(*                                                                         *)
(* One process runs main() at a time; the files it leaves behind persist   *)
(* from one invocation to the next.  External tools (wasm-tools,           *)
(* hyperfine) are modelled by the outcomes the script distinguishes.       *)
(***************************************************************************)
EXTENDS Integers, Sequences, FiniteSets, TLC

\* ------------------------------------------------------------------ bounds

\* Number of entries of BENCHMARKS the model iterates over (a prefix).
NCases == 3
\* Largest mean duration a raw per-command statistic carries.
MaxMean == 2
\* Longest record list handed to print_summary on its own.
MaxRecords == 2

\* ------------------------------------------------------- program constants

BENCHMARKS ==
    << [name |-> "counter",       input |-> 1000000],
       [name |-> "fib.recursive", input |-> 30],
       [name |-> "fib.iterative", input |-> 2000000],
       [name |-> "primes",        input |-> 1000],
       [name |-> "matmul",        input |-> 200],
       [name |-> "bulk-ops",      input |-> 5000] >>

Catalog == SubSeq(BENCHMARKS, 1, NCases)

CaseNames == { Catalog[i].name : i \in 1..Len(Catalog) }

\* File stems that may occur in WAT_DIR / WASM_DIR: the catalog's, and one
\* workload source that is not in the catalog.
Names == CaseNames \cup {"extra"}

\* The file clean() deletes, and the default of --output.
RESULTS_JSON == "results.json"

\* Values of --output: the default and one other file name.
OutputNames == {RESULTS_JSON, "out.json"}

Modes == {"convert", "clean", "run", "all"}

\* Factor of the conversion of a mean (seconds) to milliseconds.
MS_PER_S == 1000

\* -------------------------------------------------------------- JSON values

\* One element of the "results" list of a raw hyperfine export:
\*   number  - an object whose "mean" is a number
\*   missing - an object without a "mean" key
\*   null    - an object whose "mean" is not a number
\*   scalar  - not an object
Stat(k, m) == [kind |-> k, mean |-> m]

Means == 0..MaxMean

NumStats == { Stat("number", m) : m \in Means }

AllStats == NumStats \cup { Stat("missing", 0), Stat("null", 0), Stat("scalar", 0) }

\* The content of /tmp/bench_<name>.json:
\*   absent  - no such file
\*   garbage - not JSON
\*   scalar  - JSON, but not an object
\*   nokey   - an object without a "results" key
\*   object  - an object whose "results" is the list stats
Raw(k, s) == [kind |-> k, stats |-> s]

Absent == Raw("absent", <<>>)

\* Raw contents a measured case may leave in the pipeline.
RunRaw ==
    { Raw("garbage", <<>>),
      Raw("scalar", <<>>),
      Raw("object", << Stat("number", 1) >>),
      Raw("object", << Stat("number", 2), Stat("number", 1) >>) }

\* Raw contents print_summary is applied to on its own.
SummaryRaw ==
    { Raw("scalar", <<>>), Raw("nokey", <<>>), Raw("object", <<>>) }
    \cup { Raw("object", << a >>) : a \in AllStats }
    \cup { Raw("object", << a, b >>) : a \in AllStats, b \in AllStats }
    \cup { Raw("object", << a, b, Stat("number", 1) >>) : a \in NumStats, b \in NumStats }

\* ---------------------------------------------------------------- variables

VARIABLES
    wasmDir,      \* WASM_DIR exists
    wasmFiles,    \* stems of the *.wasm files in WASM_DIR
    wasmOther,    \* WASM_DIR holds an entry that is not *.wasm
    outFiles,     \* which of OutputNames exist in BENCH_DIR
    tmpFiles,     \* /tmp/bench_<name>.json files written by this invocation
    pc,           \* position of the process
    mode,         \* args.command ("all" when None)
    output,       \* args.output
    stageLog,     \* stages begun and ended by this invocation
    exitStatus,   \* process exit status, once pc = "done"
    diag,         \* the fatal diagnostic printed, if any
    wat_files,    \* sources convert_wat_files has still to convert
    idx,          \* position of the loop over BENCHMARKS
    results,      \* the list run_benchmarks accumulates
    data,         \* content of tmp_json of the current case
    outcome,      \* per case: what the tool and its raw file did
    invoked,      \* cases hyperfine was invoked for, in order
    request,      \* the last request handed to hyperfine
    writes,       \* writes of the aggregate results file by this invocation
    summary,      \* what print_summary printed
    removed,      \* clean()'s counter
    cleanRemoved, \* what the last clean() removed from disk
    cleanReport,  \* clean()'s final message
    prev          \* what the invocation before a clean invocation did

vars == << wasmDir, wasmFiles, wasmOther, outFiles, tmpFiles, pc, mode, output,
           stageLog, exitStatus, diag, wat_files, idx, results, data, outcome,
           invoked, request, writes, summary, removed, cleanRemoved, cleanReport, prev >>

disk == << wasmDir, wasmFiles, wasmOther, outFiles >>

run_locals == << idx, results, data, outcome, invoked, request, writes, summary, tmpFiles >>

clean_locals == << removed, cleanRemoved, cleanReport >>

NoDiag == [kind |-> "none", names |-> <<>>]

NoSummary == [header |-> FALSE, rows |-> <<>>, error |-> "none"]

NoRequest == [export_json |-> <<>>, commands |-> <<>>]

\* ------------------------------------------------------------ print_summary

\* r.get("results", {}) is the raw result the Collector stored; calling
\* .get("results", []) on it raises unless it is an object.
DataRaises(r) == r.results.kind = "scalar"

\* data: the "results" list of the raw result, [] when the key is missing.
DataOf(r) == IF r.results.kind = "object" THEN r.results.stats ELSE <<>>

\* if len(data) >= 2
EnoughStats(d) == Len(d) >= 2

\* What data[i].get("mean", 0) * 1000 raises, if anything.
MeanError(s) ==
    IF s.kind = "scalar" THEN "AttributeError"
    ELSE IF s.kind = "null" THEN "TypeError"
    ELSE "none"

\* data[i].get("mean", 0)
MeanOf(s) == IF s.kind = "number" THEN s.mean ELSE 0

\* ... * 1000  # Convert to ms
ToMs(m) == m * MS_PER_S

Inf == [kind |-> "inf", num |-> 1, den |-> 0]

\* a / b as an exact fraction; Python raises ZeroDivisionError for b = 0.
Divide(a, b) ==
    IF b = 0 THEN [kind |-> "ZeroDivisionError", num |-> a, den |-> b]
    ELSE [kind |-> "num", num |-> a, den |-> b]

\* Variant: the guard lets a zero baseline through.
RatioGuard_NonNegative(wasmi_time) == wasmi_time >= 0

\* ... if wasmi_time > 0 else ...
RatioGuard(wasmi_time) == wasmi_time > 0

\* ratio = wasm5_time / wasmi_time if wasmi_time > 0 else float("inf")
Ratio(wasm5_time, wasmi_time) ==
    IF RatioGuard(wasmi_time) THEN Divide(wasm5_time, wasmi_time) ELSE Inf

NoRow == [benchmark |-> "", wasmi_time |-> 0, wasm5_time |-> 0, ratio |-> Inf]

\* One pass of the loop body of print_summary: a printed row, nothing, or
\* the exception that ends the process.
RowOf(r) ==
    IF DataRaises(r) THEN [kind |-> "raise", row |-> NoRow, error |-> "AttributeError"]
    ELSE LET d == DataOf(r) IN
      IF ~EnoughStats(d) THEN [kind |-> "skip", row |-> NoRow, error |-> "none"]
      ELSE IF MeanError(d[1]) # "none"
        THEN [kind |-> "raise", row |-> NoRow, error |-> MeanError(d[1])]
      ELSE IF MeanError(d[2]) # "none"
        THEN [kind |-> "raise", row |-> NoRow, error |-> MeanError(d[2])]
      ELSE LET wasmi_time == ToMs(MeanOf(d[1]))
               wasm5_time == ToMs(MeanOf(d[2]))
               ratio == Ratio(wasm5_time, wasmi_time)
           IN IF ratio.kind = "ZeroDivisionError"
              THEN [kind |-> "raise", row |-> NoRow, error |-> "ZeroDivisionError"]
              ELSE [kind |-> "row",
                    row |-> [benchmark |-> r.benchmark, wasmi_time |-> wasmi_time,
                             wasm5_time |-> wasm5_time, ratio |-> ratio],
                    error |-> "none"]

RECURSIVE SummaryLoop(_, _, _)
SummaryLoop(rs, i, rows) ==
    IF i > Len(rs) THEN [header |-> TRUE, rows |-> rows, error |-> "none"]
    ELSE LET o == RowOf(rs[i]) IN
      IF o.kind = "raise" THEN [header |-> TRUE, rows |-> rows, error |-> o.error]
      ELSE SummaryLoop(rs, i + 1, IF o.kind = "row" THEN Append(rows, o.row) ELSE rows)

\* Variant: the early return for an empty list is missing.
print_summary_NoGuard(rs) == SummaryLoop(rs, 1, <<>>)

\* def print_summary(results)
print_summary(rs) == IF rs = <<>> THEN NoSummary ELSE SummaryLoop(rs, 1, <<>>)

\* --------------------------------------------------------------------- Init

Init ==
    /\ wasmDir \in BOOLEAN
    /\ wasmFiles \in SUBSET Names
    /\ wasmOther \in BOOLEAN
    /\ (~wasmDir => wasmFiles = {} /\ ~wasmOther)
    /\ outFiles \in SUBSET OutputNames
    /\ tmpFiles = {}
    /\ pc = "idle"
    /\ mode = "none"
    /\ output = RESULTS_JSON
    /\ stageLog = <<>>
    /\ exitStatus = 0
    /\ diag = NoDiag
    /\ wat_files = {}
    /\ idx = 1
    /\ results = <<>>
    /\ data = Absent
    /\ outcome = [n \in CaseNames |-> "none"]
    /\ invoked = <<>>
    /\ request = NoRequest
    /\ writes = <<>>
    /\ summary = NoSummary
    /\ removed = 0
    /\ cleanRemoved = {}
    /\ cleanReport = "none"
    /\ prev = "none"

\* --------------------------------------------------------------------- main

\* What the invocation that just ended did last: completed a clean(), or
\* (mode run) wrote the aggregate results file at some path.
LastDid ==
    IF pc # "done" THEN "none"
    ELSE IF stageLog # <<>> /\ stageLog[Len(stageLog)] = "clean:end" THEN "cleaned"
    ELSE IF mode = "run" /\ writes # <<>> THEN writes[Len(writes)].path
    ELSE "none"

\* main(): a new process parses its arguments and dispatches on the command.
Start(m, o) ==
    /\ pc \in {"idle", "done"}
    /\ mode' = m
    /\ output' = o
    /\ prev' = IF m = "clean" THEN LastDid ELSE "none"
    /\ pc' = IF m \in {"convert", "all"} THEN "convert"
             ELSE IF m = "clean" THEN "clean" ELSE "check"
    /\ stageLog' = <<>>
    /\ exitStatus' = 0
    /\ diag' = NoDiag
    /\ wat_files' = {}
    /\ idx' = 1
    /\ results' = <<>>
    /\ data' = Absent
    /\ outcome' = [n \in CaseNames |-> "none"]
    /\ invoked' = <<>>
    /\ request' = NoRequest
    /\ writes' = <<>>
    /\ summary' = NoSummary
    /\ tmpFiles' = {}
    /\ removed' = 0
    /\ cleanRemoved' = {}
    /\ cleanReport' = "none"
    /\ UNCHANGED disk

\* sys.exit(status), or an uncaught exception (status 1).
Exit(status) ==
    /\ pc' = "done"
    /\ exitStatus' = status

Fatal(kind, names) ==
    /\ diag' = [kind |-> kind, names |-> names]
    /\ Exit(1)

\* -------------------------------------------------------- convert_wat_files

\* WASM_DIR.mkdir(exist_ok=True); wat_files = list(WAT_DIR.glob("*.wat"));
\* no source at all is fatal.
ConvertBegin ==
    /\ pc = "convert"
    /\ stageLog' = Append(stageLog, "convert:start")
    /\ wasmDir' = TRUE
    /\ \E w \in SUBSET Names :
         IF w = {}
         THEN /\ Fatal("no_wat", <<>>)
              /\ UNCHANGED wat_files
         ELSE /\ wat_files' = w
              /\ pc' = "convert_loop"
              /\ UNCHANGED << exitStatus, diag >>
    /\ UNCHANGED << wasmFiles, wasmOther, outFiles, mode, output, prev >>
    /\ UNCHANGED << run_locals, clean_locals >>

\* One pass of the loop, wasm-tools succeeding: the artifact is (over)written.
ConvertOk ==
    /\ pc = "convert_loop"
    /\ \E f \in wat_files :
         /\ wasmFiles' = wasmFiles \cup {f}
         /\ wat_files' = wat_files \ {f}
    /\ UNCHANGED << wasmDir, wasmOther, outFiles, pc, mode, output, stageLog,
                    exitStatus, diag, prev >>
    /\ UNCHANGED << run_locals, clean_locals >>

\* Variant: a conversion error is reported and the loop goes on.
ConvertError_Continue ==
    /\ pc = "convert_loop"
    /\ \E f \in wat_files :
         /\ diag' = [kind |-> "convert_error", names |-> << f >>]
         /\ wat_files' = wat_files \ {f}
    /\ UNCHANGED << disk, pc, mode, output, stageLog, exitStatus, prev >>
    /\ UNCHANGED << run_locals, clean_locals >>

\* except subprocess.CalledProcessError: sys.exit(1)
ConvertError ==
    /\ pc = "convert_loop"
    /\ \E f \in wat_files : Fatal("convert_error", << f >>)
    /\ UNCHANGED << disk, mode, output, stageLog, wat_files, prev >>
    /\ UNCHANGED << run_locals, clean_locals >>

\* except FileNotFoundError: sys.exit(1)
ConvertToolMissing ==
    /\ pc = "convert_loop"
    /\ wat_files # {}
    /\ Fatal("wasm_tools_not_found", <<>>)
    /\ UNCHANGED << disk, mode, output, stageLog, wat_files, prev >>
    /\ UNCHANGED << run_locals, clean_locals >>

\* The loop is over: convert_wat_files returns to main() or to run_all().
ConvertEnd ==
    /\ pc = "convert_loop"
    /\ wat_files = {}
    /\ stageLog' = Append(stageLog, "convert:end")
    /\ IF mode = "all"
       THEN pc' = "check" /\ UNCHANGED exitStatus
       ELSE Exit(0)
    /\ UNCHANGED << disk, mode, output, diag, wat_files, prev >>
    /\ UNCHANGED << run_locals, clean_locals >>

\* -------------------------------------------------------------------- clean

\* if WASM_DIR.exists(): for wasm_file in WASM_DIR.glob("*.wasm")
WasmToUnlink == IF wasmDir THEN wasmFiles ELSE {}

\* WASM_DIR.rmdir() succeeds when nothing but the unlinked *.wasm was in it.
RmdirSucceeds == wasmDir /\ ~wasmOther

\* Variant: results.json is never looked for.
ResultsFileExists_Never == FALSE

\* Variant: results.json is unlinked without asking whether it exists.
ResultsFileExists_NoCheck == TRUE

\* if results_file.exists()
ResultsFileExists == RESULTS_JSON \in outFiles

Item(k, n) == [kind |-> k, name |-> n]

\* def clean()
Clean ==
    /\ pc = "clean"
    /\ LET unlinked == WasmToUnlink
           rmdir == RmdirSucceeds
           unlink_results == ResultsFileExists
           unlink_raises == unlink_results /\ RESULTS_JSON \notin outFiles
           count == Cardinality(unlinked)
                    + (IF unlink_results /\ ~unlink_raises THEN 1 ELSE 0)
       IN /\ wasmFiles' = wasmFiles \ unlinked
          /\ wasmDir' = (wasmDir /\ ~rmdir)
          /\ wasmOther' = wasmOther
          /\ outFiles' = IF unlink_results THEN outFiles \ {RESULTS_JSON} ELSE outFiles
          /\ removed' = count
          /\ cleanRemoved' =
                { Item("wasm", n) : n \in unlinked }
                \cup (IF rmdir THEN { Item("dir", "benches") } ELSE {})
                \cup (IF unlink_results /\ ~unlink_raises
                      THEN { Item("file", RESULTS_JSON) } ELSE {})
          /\ IF unlink_raises
             THEN /\ cleanReport' = "none"
                  /\ stageLog' = Append(stageLog, "clean:start")
                  /\ Exit(1)
             ELSE /\ cleanReport' = IF count = 0 THEN "nothing" ELSE "cleaned"
                  /\ stageLog' = stageLog \o << "clean:start", "clean:end" >>
                  /\ Exit(0)
    /\ UNCHANGED << mode, output, diag, wat_files, prev >>
    /\ UNCHANGED run_locals

\* --------------------------------------------------------- check_wasm_files

CatalogNames == [i \in 1..Len(Catalog) |-> Catalog[i].name]

\* not wasm_file.exists()
IsMissing(n) == n \notin wasmFiles

\* Variant: the check stops at the first missing artifact.
MissingWasm_FirstOnly ==
    LET m == SelectSeq(CatalogNames, IsMissing)
    IN IF m = <<>> THEN <<>> ELSE << m[1] >>

\* missing: the artifacts of catalog entries that do not exist, in catalog order.
MissingWasm == SelectSeq(CatalogNames, IsMissing)

\* run_benchmarks starts with check_wasm_files(): any missing artifact is
\* fatal, and the message joins all of them; then results = [].
RunCheck ==
    /\ pc = "check"
    /\ stageLog' = Append(stageLog, "run:start")
    /\ LET missing == MissingWasm IN
         IF missing # <<>>
         THEN Fatal("missing_wasm", missing)
         ELSE /\ pc' = "invoke"
              /\ UNCHANGED << exitStatus, diag >>
    /\ UNCHANGED << disk, mode, output, wat_files, prev >>
    /\ UNCHANGED << run_locals, clean_locals >>

\* ----------------------------------------------------------- run_benchmarks

\* tmp_json = f"/tmp/bench_{name}.json"
TmpJson(n) == << "/tmp/bench_", n, ".json" >>

\* Defaults of --wasmi and --wasm5, which run_all passes too.
WASMI_BIN == "wasmi_cli"

WASM5_BIN == "wasm5"

\* wasm_file = WASM_DIR / f"{name}.wasm"
WasmFile(n) == << "benches/", n, ".wasm" >>

\* f"{bin} {wasm_file} --invoke run {input_val}"
Command(bin, c) == [bin |-> bin, wasm_file |-> WasmFile(c.name), input |-> c.input]

\* Variant: the two commands are declared in the other order.
HyperfineRequest_Swapped(c) ==
    [export_json |-> TmpJson(c.name),
     commands |-> << [n |-> "wasm5", cmd |-> Command(WASM5_BIN, c)],
                     [n |-> "wasmi", cmd |-> Command(WASMI_BIN, c)] >>]

\* ["hyperfine", ..., "--export-json", tmp_json,
\*  "-n", "wasmi", wasmi_cmd, "-n", "wasm5", wasm5_cmd]
HyperfineRequest(c) ==
    [export_json |-> TmpJson(c.name),
     commands |-> << [n |-> "wasmi", cmd |-> Command(WASMI_BIN, c)],
                     [n |-> "wasm5", cmd |-> Command(WASM5_BIN, c)] >>]

\* Variant: the loop does not advance.
NextCase_Stuck(i) == i

\* The position the for loop takes after the case at position i.
NextCase(i) == i + 1

\* The next case of the loop: subprocess.run(["hyperfine", ...]) is called
\* and the process blocks on it.
InvokeStart ==
    /\ pc = "invoke"
    /\ idx <= Len(Catalog)
    /\ invoked' = Append(invoked, Catalog[idx].name)
    /\ request' = HyperfineRequest(Catalog[idx])
    /\ outcome' = [outcome EXCEPT ![Catalog[idx].name] = "running"]
    /\ pc' = "hyperfine"
    /\ UNCHANGED << disk, tmpFiles, mode, output, stageLog, exitStatus, diag,
                    wat_files, idx, results, data, writes, summary, prev >>
    /\ UNCHANGED clean_locals

\* Variant: a missing hyperfine is handled like a failed measurement.
HyperfineNotFound_Continue ==
    /\ pc = "hyperfine"
    /\ outcome' = [outcome EXCEPT ![Catalog[idx].name] = "notfound"]
    /\ pc' = "invoke"
    /\ idx' = idx + 1
    /\ UNCHANGED << disk, tmpFiles, mode, output, stageLog, exitStatus, diag,
                    wat_files, results, data, invoked, request, writes, summary, prev >>
    /\ UNCHANGED clean_locals

\* except FileNotFoundError: sys.exit(1)
HyperfineNotFound ==
    /\ pc = "hyperfine"
    /\ outcome' = [outcome EXCEPT ![Catalog[idx].name] = "notfound"]
    /\ Fatal("hyperfine_not_found", <<>>)
    /\ UNCHANGED << disk, tmpFiles, mode, output, stageLog, wat_files, idx,
                    results, data, invoked, request, writes, summary, prev >>
    /\ UNCHANGED clean_locals

\* Variant: the handler lacks its continue and falls through to collection.
AfterCalledProcessError_FallThrough == "collect"

\* Where the loop goes after except subprocess.CalledProcessError: continue
AfterCalledProcessError == "invoke"

\* except subprocess.CalledProcessError: print the error and continue
HyperfineError ==
    /\ pc = "hyperfine"
    /\ outcome' = [outcome EXCEPT ![Catalog[idx].name] = "error"]
    /\ pc' = AfterCalledProcessError
    /\ idx' = IF AfterCalledProcessError = "invoke" THEN NextCase(idx) ELSE idx
    /\ UNCHANGED << disk, tmpFiles, mode, output, stageLog, exitStatus, diag,
                    wat_files, results, data, invoked, request, writes, summary, prev >>
    /\ UNCHANGED clean_locals

\* json.load(f) succeeds on the content d of tmp_json
Parseable(d) == d.kind \notin {"absent", "garbage"}

\* hyperfine returned 0.  It leaves content c at tmp_json, or no file.
HyperfineOk ==
    /\ pc = "hyperfine"
    /\ \E c \in RunRaw \cup {Absent} :
         /\ data' = c
         /\ tmpFiles' = IF c = Absent THEN tmpFiles
                        ELSE tmpFiles \cup { TmpJson(Catalog[idx].name) }
         /\ outcome' = [outcome EXCEPT ![Catalog[idx].name] =
                          IF c = Absent THEN "missing"
                          ELSE IF c.kind = "garbage" THEN "unparseable"
                          ELSE "parsed"]
    /\ pc' = "collect"
    /\ UNCHANGED << disk, mode, output, stageLog, exitStatus, diag, wat_files,
                    idx, results, invoked, request, writes, summary, prev >>
    /\ UNCHANGED clean_locals

\* {"benchmark": name, "input": input_val, "results": data}
Record(c, d) == [benchmark |-> c.name, input |-> c.input, results |-> d]

\* Variant: the record is put in front.
AppendResult_Prepend(rs, r) == << r >> \o rs

\* results.append(...)
AppendResult(rs, r) == Append(rs, r)

\* Variant: the aggregate results file is rewritten after every collection.
Collect_WritesEachTime ==
    /\ pc = "collect"
    /\ results' = IF Parseable(data)
                  THEN Append(results, Record(Catalog[idx], data))
                  ELSE results
    /\ writes' = Append(writes, [path |-> output, content |-> results'])
    /\ outFiles' = outFiles \cup { output }
    /\ idx' = idx + 1
    /\ pc' = "invoke"
    /\ UNCHANGED << wasmDir, wasmFiles, wasmOther, tmpFiles, mode, output,
                    stageLog, exitStatus, diag, wat_files, data, outcome,
                    invoked, request, summary, prev >>
    /\ UNCHANGED clean_locals

\* # Collect results: open(tmp_json), json.load, results.append; a missing
\* or unparseable file prints a warning.  Then the loop goes on.
Collect ==
    /\ pc = "collect"
    /\ results' = IF Parseable(data)
                  THEN AppendResult(results, Record(Catalog[idx], data))
                  ELSE results
    /\ idx' = NextCase(idx)
    /\ pc' = "invoke"
    /\ UNCHANGED << disk, tmpFiles, mode, output, stageLog, exitStatus, diag,
                    wat_files, data, outcome, invoked, request, writes, summary, prev >>
    /\ UNCHANGED clean_locals

\* output_path = BENCH_DIR / output
OutputPath == output

\* # Save combined results: the loop is over, json.dump(results, f)
WriteResults ==
    /\ pc = "invoke"
    /\ idx > Len(Catalog)
    /\ outFiles' = outFiles \cup { OutputPath }
    /\ writes' = Append(writes, [path |-> OutputPath, content |-> results])
    /\ pc' = "summary"
    /\ UNCHANGED << wasmDir, wasmFiles, wasmOther, tmpFiles, mode, output,
                    stageLog, exitStatus, diag, wat_files, idx, results, data,
                    outcome, invoked, request, summary, prev >>
    /\ UNCHANGED clean_locals

\* # Print summary: print_summary(results); an exception it raises ends the
\* process, otherwise run_benchmarks returns to main() or to run_all().
PrintSummary ==
    /\ pc = "summary"
    /\ summary' = print_summary(results)
    /\ IF summary'.error # "none"
       THEN /\ Exit(1)
            /\ UNCHANGED stageLog
       ELSE /\ stageLog' = Append(stageLog, "run:end")
            /\ IF mode = "all"
               THEN pc' = "clean" /\ UNCHANGED exitStatus
               ELSE Exit(0)
    /\ UNCHANGED << disk, tmpFiles, mode, output, diag, wat_files, idx, results,
                    data, outcome, invoked, request, writes, prev >>
    /\ UNCHANGED clean_locals

\* ------------------------------------------------------------ specification

Invoke ==
    \E m \in Modes :
      \E o \in (IF m = "run" THEN OutputNames ELSE {RESULTS_JSON}) : Start(m, o)

Next ==
    \/ Invoke
    \/ ConvertBegin
    \/ ConvertOk
    \/ ConvertError
    \/ ConvertToolMissing
    \/ ConvertEnd
    \/ RunCheck
    \/ InvokeStart
    \/ HyperfineNotFound
    \/ HyperfineError
    \/ HyperfineOk
    \/ Collect
    \/ WriteResults
    \/ PrintSummary
    \/ Clean

Spec == Init /\ [][Next]_vars

\* print_summary on its own: any list of up to MaxRecords records, one per
\* catalog position, whose raw results are any of SummaryRaw.
SummaryInit ==
    /\ wasmDir = TRUE
    /\ wasmFiles = CaseNames
    /\ wasmOther = FALSE
    /\ outFiles = {RESULTS_JSON}
    /\ tmpFiles = {}
    /\ pc = "summary"
    /\ mode = "run"
    /\ output = RESULTS_JSON
    /\ stageLog = << "run:start" >>
    /\ exitStatus = 0
    /\ diag = NoDiag
    /\ wat_files = {}
    /\ idx = Len(Catalog) + 1
    /\ \E n \in 0..MaxRecords :
         \E raws \in [1..n -> SummaryRaw] :
           results = [i \in 1..n |-> Record(BENCHMARKS[i], raws[i])]
    /\ data = Absent
    /\ outcome = [n \in CaseNames |-> "none"]
    /\ invoked = <<>>
    /\ request = NoRequest
    /\ writes = <<>>
    /\ summary = NoSummary
    /\ removed = 0
    /\ cleanRemoved = {}
    /\ cleanReport = "none"
    /\ prev = "none"

SummaryNext == PrintSummary

SummarySpec == SummaryInit /\ [][SummaryNext]_vars

\* ------------------------------------------------------------------- claims

Last(q) == q[Len(q)]

IsPrefix(p, q) == Len(p) <= Len(q) /\ \A i \in 1..Len(p) : p[i] = q[i]

Range(q) == { q[i] : i \in 1..Len(q) }

\* The run stage is the stage this invocation is in, or ended in.
InRunStage == stageLog # <<>> /\ Last(stageLog) = "run:start"

\* Catalog entries without a compiled artifact on disk.
MissingOnDisk == { n \in CaseNames : n \notin wasmFiles }

\* C1: once run has started with some catalog entry's artifact missing, it
\* has terminated with status 1, hyperfine has been invoked for no case, and
\* the failure message names exactly the catalog entries whose artifact is
\* missing.
C1_MissingArtifactsFatal ==
    (InRunStage /\ MissingOnDisk # {}) =>
        /\ pc = "done"
        /\ exitStatus = 1
        /\ invoked = <<>>
        /\ \A n \in CaseNames : outcome[n] = "none"
        /\ diag.kind = "missing_wasm"
        /\ Range(diag.names) = MissingOnDisk

C1_Witness ==
    /\ InRunStage
    /\ pc = "done"
    /\ Cardinality(MissingOnDisk) >= 2
    /\ MissingOnDisk # CaseNames
    /\ Len(diag.names) >= 2

\* The cases whose measurement succeeded and whose raw file parsed, in
\* catalog order.
WasParsed(n) == outcome[n] = "parsed"

Survivors == SelectSeq(CatalogNames, WasParsed)

EntryOf(n) == CHOOSE c \in Range(Catalog) : c.name = n

\* C2: every write of the aggregate results file holds exactly one record
\* for each case that was measured and collected successfully, none for any
\* other case, in catalog order, each tagged with its catalog entry.
C2_AggregateIsSurvivorsInOrder ==
    \A w \in 1..Len(writes) :
        LET c == writes[w].content IN
        /\ [j \in 1..Len(c) |-> c[j].benchmark] = Survivors
        /\ \A j \in 1..Len(c) : c[j].input = EntryOf(c[j].benchmark).input

C2_Witness ==
    /\ writes # <<>>
    /\ outcome[Catalog[1].name] = "parsed"
    /\ outcome[Catalog[2].name] \in {"error", "missing", "unparseable"}
    /\ outcome[Catalog[3].name] = "parsed"
    /\ Len(writes[1].content) = 2
    /\ writes[1].content[1].benchmark = Catalog[1].name
    /\ writes[1].content[2].benchmark = Catalog[3].name

FullPipeline ==
    << "convert:start", "convert:end", "run:start", "run:end",
       "clean:start", "clean:end" >>

\* C3: the full pipeline begins and ends its stages in the order convert,
\* run, clean, and when it meets no fatal condition (only recoverable
\* per-case failures, if any) it has performed all three once it ends.
C3_PipelineOrder ==
    mode = "all" =>
        /\ IsPrefix(stageLog, FullPipeline)
        /\ (pc = "done" /\ diag = NoDiag) => stageLog = FullPipeline

\* C4: when a clean invocation follows a run that wrote its aggregate
\* results file, at whatever --output path, then after clean() no compiled
\* artifact exists and the file that run wrote does not exist.
C4_CleanRemovesRunOutput ==
    (pc = "done" /\ mode = "clean" /\ prev \in OutputNames) =>
        /\ wasmFiles = {}
        /\ prev \notin outFiles

CleanCalled == "clean:start" \in Range(stageLog)

\* C5: clean() completes without error from any persisted state, and a
\* clean() right after a completed clean() removes nothing and reports
\* "Nothing to clean.".
C5_CleanIdempotent ==
    /\ (pc = "done" /\ CleanCalled) =>
          /\ exitStatus = 0
          /\ Last(stageLog) = "clean:end"
          /\ cleanReport \in {"nothing", "cleaned"}
    /\ (pc = "done" /\ mode = "clean" /\ prev = "cleaned") =>
          /\ cleanRemoved = {}
          /\ removed = 0
          /\ cleanReport = "nothing"

C5_Witness ==
    /\ pc = "done"
    /\ mode = "clean"
    /\ prev = "cleaned"
    /\ wasmDir
    /\ cleanReport = "nothing"

\* C6: when hyperfine is not found for a case, the invocation has ended at
\* once with status 1: that case is the last one hyperfine was invoked for,
\* no aggregate results file was written, no summary was printed, and no
\* later stage ran.
C6_ToolNotFoundAborts ==
    \A n \in CaseNames :
        outcome[n] = "notfound" =>
            /\ pc = "done"
            /\ exitStatus = 1
            /\ diag.kind = "hyperfine_not_found"
            /\ invoked # <<>> /\ Last(invoked) = n
            /\ \A i \in 1..Len(Catalog) :
                  i > Len(invoked) => outcome[Catalog[i].name] = "none"
            /\ writes = <<>>
            /\ summary = NoSummary
            /\ Last(stageLog) = "run:start"

C6_Witness ==
    /\ outcome[Catalog[2].name] = "notfound"
    /\ results # <<>>
    /\ pc = "done"
    /\ Len(invoked) < Len(Catalog)

\* C7: a run that meets no fatal condition, whatever recoverable failures
\* its cases had, has measured every catalog case when it ends, and exits
\* with status 0 if at least one case was measured and collected.
C7_RecoverableContinues ==
    (pc = "done" /\ mode = "run" /\ diag = NoDiag) =>
        /\ invoked = CatalogNames
        /\ (\E n \in CaseNames : outcome[n] = "parsed") => exitStatus = 0

\* The mean print_summary reads from a well-formed statistic.
StatMean(s) == IF s.kind = "number" THEN s.mean ELSE 0

WellFormedPair(raw) ==
    /\ raw.kind = "object"
    /\ Len(raw.stats) >= 2
    /\ raw.stats[1].kind \in {"number", "missing"}
    /\ raw.stats[2].kind \in {"number", "missing"}

RecordNamed(n) == CHOOSE r \in Range(results) : r.benchmark = n

\* ratio is C / B for B > 0 and infinity for B = 0.
RatioIs(ratio, B, C) ==
    IF B > 0
    THEN ratio.kind = "num" /\ ratio.den # 0 /\ ratio.num * B = C * ratio.den
    ELSE ratio.kind = "inf"

\* C8: print_summary never raises a division error; every row it prints
\* belongs to a record with baseline mean B (index 0) and candidate mean C
\* (index 1) and shows ratio C / B when B > 0 and infinity when B = 0; and
\* when it raises nothing, every such record has its row.
C8_RatioReported ==
    /\ summary.error # "ZeroDivisionError"
    /\ \A k \in 1..Len(summary.rows) :
          LET row == summary.rows[k]
              raw == RecordNamed(row.benchmark).results
          IN /\ WellFormedPair(raw)
             /\ RatioIs(row.ratio, StatMean(raw.stats[1]), StatMean(raw.stats[2]))
    /\ (summary.header /\ summary.error = "none") =>
          \A i \in 1..Len(results) :
              WellFormedPair(results[i].results) =>
                  \E k \in 1..Len(summary.rows) :
                      summary.rows[k].benchmark = results[i].benchmark

C8_Witness ==
    /\ pc = "done"
    /\ Len(summary.rows) = 2
    /\ summary.rows[1].ratio.kind = "inf"
    /\ summary.rows[2].ratio.kind = "num"
    /\ summary.rows[2].ratio.num * 2 = summary.rows[2].ratio.den

HasTwoStats(r) == r.results.kind = "object" /\ Len(r.results.stats) >= 2

\* C9: for any list of records the Collector accepted, print_summary ends
\* without raising, and its rows are, in list order, exactly the records
\* with two or more per-command statistics.
C9_SummaryNeverRaises ==
    summary.header =>
        /\ summary.error = "none"
        /\ [k \in 1..Len(summary.rows) |-> summary.rows[k].benchmark]
             = LET picked == SelectSeq(results, HasTwoStats)
               IN [k \in 1..Len(picked) |-> picked[k].benchmark]

Completed(n) == outcome[n] \in {"error", "missing", "unparseable", "parsed"}

\* The temporary raw-result locations in use: the one hyperfine is writing,
\* the one the Collector is about to read.
TmpInUse ==
    { TmpJson(n) : n \in { m \in CaseNames : outcome[m] = "running" } }
    \cup (IF pc = "collect" THEN { TmpJson(Catalog[idx].name) } ELSE {})

\* C10: hyperfine is invoked for the cases in catalog order, at most once
\* each and one at a time; when a case is invoked every earlier case has
\* completed and, if its raw result parsed, has been collected; and at most
\* one temporary raw-result location is in use at any time.
C10_Sequential ==
    /\ IsPrefix(invoked, CatalogNames)
    /\ Cardinality({ n \in CaseNames : outcome[n] = "running" }) <= 1
    /\ \A i \in 1..Len(invoked) :
          i < Len(invoked) =>
              /\ Completed(invoked[i])
              /\ outcome[invoked[i]] = "parsed" =>
                    \E j \in 1..Len(results) : results[j].benchmark = invoked[i]
    /\ Cardinality(TmpInUse) <= 1

C10_Witness ==
    /\ pc = "hyperfine"
    /\ Len(invoked) = Len(Catalog)
    /\ Len(results) >= 2
    /\ outcome[Last(invoked)] = "running"

\* C11: when convert_wat_files finds no source file it exits with status 1
\* and the persisted state (the artifact directory and its content, the
\* results files) is what it was before the call.
C11_NoSourcesLeavesDiskAlone ==
    [][ (pc = "convert" /\ diag'.kind = "no_wat") =>
            /\ pc' = "done"
            /\ exitStatus' = 1
            /\ disk' = disk ]_vars

\* The step that converts source f: f leaves the sources still to convert.
ConvertedBy(f) == f \in wat_files /\ wat_files' = wat_files \ {f}

\* C12 (as stated): every stage, conversion included, processes the
\* catalog's entries only and all of them: a conversion step converts a
\* catalog entry, and a conversion that ends has converted every entry.
C12_CatalogDrivesEveryStage ==
    [][ /\ (pc = "convert_loop" /\ pc' = "convert_loop") =>
              \A f \in Names : ConvertedBy(f) => f \in CaseNames
        /\ (pc = "convert_loop" /\ pc' # "convert_loop" /\ diag' = NoDiag) =>
              CaseNames \subseteq wasmFiles ]_vars

IsSubSeq(p, q) ==
    \E f \in [1..Len(p) -> 1..Len(q)] :
        /\ \A i \in 1..Len(p) : p[i] = q[f[i]]
        /\ \A i, j \in 1..Len(p) : i < j => f[i] < f[j]

NamesOf(rs) == [i \in 1..Len(rs) |-> rs[i].benchmark]

OnDiskMissing(n) == n \notin wasmFiles

WasCollected(n) == outcome[n] = "parsed" /\ (pc = "collect" => Catalog[idx].name # n)

\* C12 (amended): the artifact check, measurement, collection and reporting
\* process catalog entries only, in catalog order: the check reports exactly
\* the catalog's missing artifacts, measurement covers a prefix of the
\* catalog and all of it once the results are written, the collected
\* records are the parsed cases in catalog order, and the printed rows are
\* a subsequence of the records.  A conversion step converts a source that
\* was found in WAT_DIR and leaves its artifact, in or out of the catalog.
C12_CatalogDrivesRunStages ==
    /\ [](/\ diag.kind = "missing_wasm" =>
                diag.names = SelectSeq(CatalogNames, OnDiskMissing)
          /\ IsPrefix(invoked, CatalogNames)
          /\ writes # <<>> => invoked = CatalogNames
          /\ NamesOf(results) = SelectSeq(CatalogNames, WasCollected)
          /\ \A i \in 1..Len(results) :
                results[i].input = EntryOf(results[i].benchmark).input
          /\ IsSubSeq(NamesOf(summary.rows), NamesOf(results)))
    /\ [][ (pc = "convert_loop" /\ pc' = "convert_loop") =>
              \A f \in Names : ConvertedBy(f) => f \in wasmFiles' ]_vars

C12_Witness ==
    /\ mode = "all"
    /\ pc = "done"
    /\ exitStatus = 0
    /\ Len(results) = 2
    /\ Len(summary.rows) = 1
    /\ \E n \in CaseNames : outcome[n] = "error"

CleanCompleted == pc = "done" /\ stageLog # <<>> /\ Last(stageLog) = "clean:end"

\* C13: a completed clean() reports "Nothing to clean." exactly when it
\* removed no item (artifact file, artifact directory, results file), and
\* otherwise reports the number of items it removed.
C13_ReportMatchesRemoved ==
    CleanCompleted =>
        /\ cleanReport = "nothing" <=> cleanRemoved = {}
        /\ cleanReport = "cleaned" => removed = Cardinality(cleanRemoved)

\* C14: when an invocation has ended, no per-case raw-result temporary file
\* it created is left on storage.
C14_NoTemporaryLeftBehind ==
    pc = "done" => tmpFiles = {}

\* C15: the aggregate results file is written at most once per invocation,
\* never while the loop over the cases is running, only after every case
\* has been measured and has completed, and before the summary is printed;
\* a run that passed the check and met no fatal condition has written it
\* exactly once when it ends, also when no case succeeded.
C15_WrittenOnceAtEnd ==
    /\ Len(writes) <= 1
    /\ pc \in {"hyperfine", "collect"} => writes = <<>>
    /\ (pc = "invoke" /\ idx <= Len(Catalog)) => writes = <<>>
    /\ writes # <<>> =>
          /\ invoked = CatalogNames
          /\ \A n \in CaseNames : Completed(n)
          /\ writes[1].path = output
          /\ writes[1].content = results
    /\ summary # NoSummary => writes # <<>>
    /\ (pc = "done" /\ mode \in {"run", "all"} /\ diag = NoDiag) => Len(writes) = 1

C15_Witness ==
    /\ pc = "done"
    /\ mode = "run"
    /\ Len(writes) = 1
    /\ writes[1].content = <<>>
    /\ exitStatus = 0

\* C16: when wasm-tools reports an error for a source, the invocation has
\* ended with status 1 at that source: the source and every source not yet
\* converted stay unconverted, and neither the run stage nor the clean stage
\* has begun.
C16_ConversionErrorAborts ==
    diag.kind = "convert_error" =>
        /\ pc = "done"
        /\ exitStatus = 1
        /\ diag.names[1] \in wat_files
        /\ stageLog = << "convert:start" >>
        /\ invoked = <<>>
        /\ writes = <<>>
        /\ cleanReport = "none"

C16_Witness ==
    /\ diag.kind = "convert_error"
    /\ mode = "all"
    /\ Cardinality(wat_files) >= 2
    /\ \E n \in wat_files : n \notin wasmFiles

\* The summary row of record r reads index 0 as wasmi and index 1 as wasm5.
RowReadsPositions(row, r) ==
    /\ row.wasmi_time = StatMean(r.results.stats[1]) * MS_PER_S
    /\ row.wasm5_time = StatMean(r.results.stats[2]) * MS_PER_S

\* C17: every request handed to hyperfine declares the wasmi (baseline)
\* command first and the wasm5 (candidate) command second, both on the
\* artifact and the input of the catalog entry being measured, and every
\* summary row takes its wasmi time from index 0 and its wasm5 time from
\* index 1 of its record's raw result.
C17_BaselineFirst ==
    /\ invoked # <<>> =>
          LET c == EntryOf(Last(invoked)) IN
          /\ Len(request.commands) = 2
          /\ request.commands[1].n = "wasmi"
          /\ request.commands[1].cmd.bin = WASMI_BIN
          /\ request.commands[2].n = "wasm5"
          /\ request.commands[2].cmd.bin = WASM5_BIN
          /\ request.commands[1].cmd.wasm_file = request.commands[2].cmd.wasm_file
          /\ request.commands[1].cmd.wasm_file = << "benches/", c.name, ".wasm" >>
          /\ request.commands[1].cmd.input = c.input
          /\ request.commands[2].cmd.input = c.input
    /\ \A k \in 1..Len(summary.rows) :
          RowReadsPositions(summary.rows[k], RecordNamed(summary.rows[k].benchmark))

C17_Witness ==
    /\ Len(invoked) = Len(Catalog)
    /\ Len(summary.rows) >= 1
    /\ summary.rows[1].wasmi_time = 2 * MS_PER_S
    /\ summary.rows[1].wasm5_time = 1 * MS_PER_S

\* C18: when a full-pipeline invocation ends with status 0, the run stage
\* wrote results.json, the clean stage removed it, and neither a compiled
\* artifact nor results.json exists.
C18_PipelineLeavesNothing ==
    (mode = "all" /\ pc = "done" /\ exitStatus = 0) =>
        /\ Len(writes) = 1
        /\ writes[1].path = RESULTS_JSON
        /\ Item("file", RESULTS_JSON) \in cleanRemoved
        /\ RESULTS_JSON \notin outFiles
        /\ wasmFiles = {}

C18_Witness ==
    /\ mode = "all"
    /\ pc = "done"
    /\ exitStatus = 0
    /\ \E n \in CaseNames : outcome[n] = "error"
    /\ \E n \in CaseNames : outcome[n] = "parsed"

RecoverablyFailed(n) == outcome[n] \in {"error", "missing", "unparseable"}

\* C19: when every case of a run failed recoverably, the run has written an
\* aggregate results file holding the empty sequence, print_summary printed
\* nothing and raised nothing, and the process exits with status 0.
C19_AllFailedStillCompletes ==
    (pc = "done" /\ mode \in {"run", "all"} /\ \A n \in CaseNames : RecoverablyFailed(n)) =>
        /\ exitStatus = 0
        /\ Len(writes) = 1
        /\ writes[1].content = <<>>
        /\ summary = NoSummary

C19_Witness ==
    /\ pc = "done"
    /\ mode = "run"
    /\ \A n \in CaseNames : RecoverablyFailed(n)
    /\ \E n \in CaseNames : outcome[n] = "error"
    /\ \E n \in CaseNames : outcome[n] = "unparseable"
    /\ writes # <<>>

====
